---- MODULE Spec2Model ----
(***************************************************************************)
(* A model of daily_scraper.py: the line chunker (split_message), the      *)
(* event extraction (scrape_wikipedia), the per-chunk summarisation         *)
(* (summarize_with_groq, main) and the WhatsApp delivery loop               *)
(* (__main__, send_whatsapp_message, check_message_status).                *)
(*                                                                         *)
(* Strings are sequences of one-character symbols.  The symbol "#" stands  *)
(* for a run of RunLen characters none of which is a line break, so that   *)
(* texts longer than the 4000-character summarisation budget stay small.   *)
(***************************************************************************)
EXTENDS Integers, Sequences, FiniteSets, TLC

VARIABLES
  pc,            \* position of the single thread of control
  cText,         \* split_message: argument message
  cBudget,       \* split_message: argument chunk_size
  cChunks,       \* split_message: returned list
  page,          \* the fetched page: a fetch error, a page without the content div, or its sections
  events,        \* scrape_wikipedia: returned list
  chunks,        \* summarize_with_groq: chunks
  ci,            \* summarize_with_groq: index of the chunk being summarised (i + 1)
  summaries,     \* summarize_with_groq: summaries
  final_summary, \* summarize_with_groq: returned text
  summary,       \* __main__: what main() returned
  groqLog,       \* history: the calls of client.chat.completions.create, in order
  messages,      \* __main__: messages
  ni,            \* __main__: index of number in phone_numbers
  mi,            \* __main__: index i of message in messages
  ui,            \* send_whatsapp_message: index i of message in its argument messages
  retry_count,   \* send_whatsapp_message: retry_count
  message_sids,  \* send_whatsapp_message: message_sids
  success,       \* __main__: success, the first component send_whatsapp_message returned
  si,            \* __main__: index of sid in message_sids
  status,        \* __main__: status, what check_message_status returned last
  faults,        \* history: TwilioRestExceptions raised so far
  nSids,         \* history: sids the provider has assigned (the sids are 1..nSids)
  nCreate,       \* history: calls of client.messages.create
  lastBody,      \* history: body of the last call of client.messages.create
  attempted,     \* history: <<number, message>> index pairs with a call of client.messages.create
  exhausted,     \* history: <<number, message>> index pairs whose send_whatsapp_message returned False
  polled,        \* history: the sids given to client.messages(sid).fetch(), in order
  unitLog        \* history: what happened for the unit being sent: "err", "sleep", "ok"

chunkVars == <<cText, cBudget, cChunks>>
extractVars == <<page, events>>
mainVars == <<chunks, ci, summaries, final_summary, summary, groqLog>>
loopVars == <<messages, ni, mi>>
sendVars == <<ui, retry_count, message_sids, success>>
pollVars == <<si, status>>
histVars == <<faults, nSids, nCreate, lastBody, attempted, exhausted, polled, unitLog>>
deliverVars == <<loopVars, sendVars, pollVars, histVars>>

vars == <<pc, chunkVars, extractVars, mainVars, deliverVars>>

NoValue == <<"None">>      \* Python's None where a string may stand (no string holds this symbol)
NL == "\n"

----------------------------------------------------------------------------
(* Bounds of the model *)
MaxLen == 6                \* longest text given to split_message on its own
MaxBudget == 4             \* largest chunk_size given to split_message on its own
RunLen == 1998             \* characters the symbol "#" stands for
MaxItems == 3              \* most list items of a page given to scrape_wikipedia on its own
MaxEvents == 3             \* most list items of a page given to main() on its own
MaxFaults == 3             \* most TwilioRestExceptions the provider raises in one run
MaxSummaryLen == 4         \* longest summary given to the delivery loop on its own

----------------------------------------------------------------------------
(* Strings *)

Width(c) == IF c = "#" THEN RunLen ELSE 1

RECURSIVE StrLen(_)
StrLen(s) == IF s = <<>> THEN 0 ELSE Width(Head(s)) + StrLen(Tail(s))

Drop(s, n) == SubSeq(s, n + 1, Len(s))

StartsWith(s, p) == Len(s) >= Len(p) /\ SubSeq(s, 1, Len(p)) = p

\* str.split(sep): the pieces between the non-overlapping occurrences of sep,
\* found left to right; always at least one piece.
RECURSIVE SplitAcc(_, _, _, _)
SplitAcc(s, sep, cur, acc) ==
  IF s = <<>> THEN Append(acc, cur)
  ELSE IF StartsWith(s, sep) THEN SplitAcc(Drop(s, Len(sep)), sep, <<>>, Append(acc, cur))
  ELSE SplitAcc(Tail(s), sep, Append(cur, Head(s)), acc)

Split(s, sep) == SplitAcc(s, sep, <<>>, <<>>)

\* sep.join(parts)
RECURSIVE Join(_, _)
Join(sep, parts) ==
  IF parts = <<>> THEN <<>>
  ELSE IF Len(parts) = 1 THEN parts[1]
  ELSE parts[1] \o sep \o Join(sep, Tail(parts))

RECURSIVE StringsUpTo(_, _)
StringsUpTo(alphabet, n) ==
  IF n = 0 THEN {<<>>}
  ELSE LET shorter == StringsUpTo(alphabet, n - 1)
       IN  shorter \cup {Append(s, c) : s \in {t \in shorter : Len(t) = n - 1}, c \in alphabet}

----------------------------------------------------------------------------
(* split_message *)

\* a variant of the test that forgets the separator
OverflowsOffByOne(current_length, line, chunk_size) ==
  current_length + StrLen(line) > chunk_size

\* the test of line 191
Overflows(current_length, line, chunk_size) ==
  current_length + StrLen(line) + 1 > chunk_size

\* the for loop of lines 190-197 and the flush of lines 199-200
RECURSIVE SplitLoop(_, _, _, _, _, _)
SplitLoop(lines, i, chunkList, current_chunk, current_length, chunk_size) ==
  IF i > Len(lines)
  THEN IF current_chunk # <<>> THEN Append(chunkList, Join(<<NL>>, current_chunk)) ELSE chunkList
  ELSE IF Overflows(current_length, lines[i], chunk_size)
  THEN SplitLoop(lines, i + 1, Append(chunkList, Join(<<NL>>, current_chunk)),
                 <<lines[i]>>, StrLen(lines[i]), chunk_size)
  ELSE SplitLoop(lines, i + 1, chunkList, Append(current_chunk, lines[i]),
                 current_length + StrLen(lines[i]) + 1, chunk_size)

split_message(message, chunk_size) ==
  SplitLoop(Split(message, <<NL>>), 1, <<>>, <<>>, 0, chunk_size)

----------------------------------------------------------------------------
(* scrape_wikipedia *)

(* The content div holds h2 and ul elements; a ul holds li elements; an li
   has its own text, possibly a <b> element, possibly an <a class=mw-redirect>
   and possibly one nested ul of li elements (nesting is modelled one level
   deep).  The field src of an element names its place in the document:
   <<u, i, 0>> is item i of top-level list u, <<u, i, k>> is item k of the
   list nested in it; emitted events keep it, so that the order of emission
   can be compared with the order of the document. *)

H2(isDate) == [tag |-> "h2", isDate |-> isDate, items |-> <<>>]
Ul(items) == [tag |-> "ul", isDate |-> FALSE, items |-> items]
Li(b, redirect, text, nested) == [b |-> b, redirect |-> redirect, text |-> text, nested |-> nested]

ErrorPage == [kind |-> "fetch_error", sections |-> <<>>]
MissingPage == [kind |-> "no_content", sections |-> <<>>]
ContentPage(sections) == [kind |-> "content", sections |-> sections]

\* item.find('b'): the first <b> inside the item, its own or one of a nested item
RECURSIVE FirstB(_)
FirstB(items) ==
  IF items = <<>> THEN NoValue
  ELSE IF Head(items).b # NoValue THEN Head(items).b
  ELSE FirstB(Tail(items))

FindB(item) == IF item.b # NoValue THEN item.b ELSE FirstB(item.nested)

\* item.find('a', {'class': 'mw-redirect'}): anywhere inside the item
FindRedirect(item) ==
  item.redirect \/ \E k \in 1..Len(item.nested) : item.nested[k].redirect

\* element.get_text(strip=True): every text inside the element, nested items' too
RECURSIVE ConcatTexts(_)
ConcatTexts(items) ==
  IF items = <<>> THEN <<>> ELSE Head(items).text \o ConcatTexts(Tail(items))

extract_event_info(element) == element.text \o ConcatTexts(element.nested)

Event(type, main, sub, text, src) ==
  [type |-> type, main_category |-> main, subcategory |-> sub, text |-> text, src |-> src]

\* lines 89-101: one nested_event per item of the nested list
RECURSIVE NestedEvents(_, _, _, _, _, _)
NestedEvents(nested, k, main, sub, u, i) ==
  IF k > Len(nested) THEN <<>>
  ELSE <<Event("nested_event", main, sub, extract_event_info(nested[k]), <<u, i, k>>)>>
       \o NestedEvents(nested, k + 1, main, sub, u, i)

\* lines 62-101: the items of one list; st = [events, main, sub]
\* the list is top-level list u (base = 0) or the list nested in item base of list u
ItemSrc(u, base, i) == IF base = 0 THEN <<u, i, 0>> ELSE <<u, base, i>>

ResetOnMain(st) == NoValue

RECURSIVE ProcessItems(_, _, _, _, _)
ProcessItems(items, i, st, u, base) ==
  IF i > Len(items) THEN st
  ELSE
    LET item == items[i]
        src == ItemSrc(u, base, i)
        own ==
          IF FindB(item) # NoValue
          THEN [events |-> Append(st.events,
                                  Event("main_category", NoValue, NoValue, FindB(item), src)),
                main |-> FindB(item),
                sub |-> ResetOnMain(st)]
          ELSE IF FindRedirect(item)
          THEN [events |-> Append(st.events,
                                  Event("subcategory", st.main, NoValue, extract_event_info(item), src)),
                main |-> st.main,
                sub |-> extract_event_info(item)]
          ELSE [events |-> Append(st.events,
                                  Event("event", st.main, st.sub, extract_event_info(item), src)),
                main |-> st.main,
                sub |-> st.sub]
        withNested ==
          [own EXCEPT !.events = own.events \o NestedEvents(item.nested, 1, own.main, own.sub, u, i)]
    IN ProcessItems(items, i + 1, withNested, u, base)

\* main_content.find_all(['h2', 'ul']): every h2 and ul inside the content div,
\* nested lists too, in document order
RECURSIVE NestedLists(_, _, _)
NestedLists(items, i, u) ==
  IF i > Len(items) THEN <<>>
  ELSE (IF items[i].nested # <<>>
        THEN <<[sec |-> Ul(items[i].nested), u |-> u, base |-> i]>>
        ELSE <<>>)
       \o NestedLists(items, i + 1, u)

RECURSIVE FindAllSections(_, _)
FindAllSections(sections, u) ==
  IF u > Len(sections) THEN <<>>
  ELSE <<[sec |-> sections[u], u |-> u, base |-> 0]>>
       \o (IF sections[u].tag = "ul" THEN NestedLists(sections[u].items, 1, u) ELSE <<>>)
       \o FindAllSections(sections, u + 1)

\* lines 55-101: the loop over the sections found
RECURSIVE ProcessSections(_, _, _)
ProcessSections(found, j, st) ==
  IF j > Len(found) THEN st
  ELSE IF found[j].sec.tag = "h2" THEN ProcessSections(found, j + 1, st)
  ELSE ProcessSections(found, j + 1,
                       ProcessItems(found[j].sec.items, 1, st, found[j].u, found[j].base))

scrape_wikipedia(p) ==
  IF p.kind = "fetch_error" THEN <<>>
  ELSE IF p.kind = "no_content" THEN <<>>
  ELSE ProcessSections(FindAllSections(p.sections, 1), 1,
                       [events |-> <<>>, main |-> NoValue, sub |-> NoValue]).events

----------------------------------------------------------------------------
(* summarize_with_groq and main *)

SummaryChunkSize == 4000   \* line 150

\* lines 118-126: the prompt text of the events
RECURSIVE FormatEvents(_)
FormatEvents(evs) ==
  IF evs = <<>> THEN <<>>
  ELSE (IF Head(evs).type = "main_category"
        THEN <<<<NL, "*", "*">> \o Head(evs).text \o <<"*", "*">>>>
        ELSE <<<<"-", " ">> \o Head(evs).text>>)
       \o FormatEvents(Tail(evs))

EventsText(evs) == Join(<<NL>>, FormatEvents(evs))

Digits == <<"0", "1", "2", "3", "4", "5", "6", "7", "8", "9">>

\* str(n) of a natural number
RECURSIVE Decimal(_)
Decimal(n) == IF n < 10 THEN <<Digits[n + 1]>> ELSE Decimal(n \div 10) \o <<Digits[(n % 10) + 1]>>

\* line 178: f"Error summarizing chunk {i+1}"
Placeholder(k) ==
  <<"E", "r", "r", "o", "r", " ", "s", "u", "m", "m", "a", "r", "i", "z", "i", "n", "g", " ",
    "c", "h", "u", "n", "k", " ">> \o Decimal(k)

\* what the summarisation provider may answer
Replies == {<<>>, <<"s">>}

\* a variant that takes the empty string for a summary
FalsyOnlyNone(x) == x = NoValue

\* not x, for x a string or None (lines 242 and 335)
Falsy(x) == x = NoValue \/ x = <<>>

\* lines 213-216 and 150-152: scrape; no events raises ValueError, which the
\* except of line 264 turns into return None
MainScrape ==
  /\ pc = "main"
  /\ events' = scrape_wikipedia(page)
  /\ IF events' = <<>>
     THEN /\ summary' = NoValue
          /\ pc' = "script"
          /\ UNCHANGED chunks
     ELSE /\ chunks' = split_message(EventsText(events'), SummaryChunkSize)
          /\ pc' = "groq"
          /\ UNCHANGED summary
  /\ UNCHANGED <<page, ci, summaries, final_summary, groqLog, chunkVars, deliverVars>>

\* a variant of the loop that gives up at the first failed chunk
AfterChunkStopsOnError(ok) == IF ci < Len(chunks) /\ ok THEN "groq" ELSE "join"

\* where the loop of line 154 goes after chunk ci
AfterChunk(ok) == IF ci < Len(chunks) THEN "groq" ELSE "join"

\* lines 154-175: the call for chunk ci answers
GroqOk ==
  /\ pc = "groq"
  /\ \E reply \in Replies :
       /\ summaries' = Append(summaries, reply)
       /\ groqLog' = Append(groqLog, [chunk |-> ci, text |-> chunks[ci], ok |-> TRUE, reply |-> reply])
  /\ ci' = ci + 1
  /\ pc' = AfterChunk(TRUE)
  /\ UNCHANGED <<chunks, final_summary, summary, chunkVars, extractVars, deliverVars>>

\* lines 176-178: the call for chunk ci raises, or its answer cannot be read
GroqFail ==
  /\ pc = "groq"
  /\ summaries' = Append(summaries, Placeholder(ci))
  /\ groqLog' = Append(groqLog, [chunk |-> ci, text |-> chunks[ci], ok |-> FALSE, reply |-> NoValue])
  /\ ci' = ci + 1
  /\ pc' = AfterChunk(FALSE)
  /\ UNCHANGED <<chunks, final_summary, summary, chunkVars, extractVars, deliverVars>>

\* lines 180-182 and 241-267: join, return to main, which returns the summary
\* or, for an empty one, raises ValueError and returns None (the chunks of
\* line 248 are only logged)
SummarizeReturn ==
  /\ pc = "join"
  /\ final_summary' = Join(<<NL, NL>>, summaries)
  /\ summary' = IF Falsy(final_summary') THEN NoValue ELSE final_summary'
  /\ pc' = "script"
  /\ UNCHANGED <<chunks, ci, summaries, groqLog, chunkVars, extractVars, deliverVars>>

----------------------------------------------------------------------------
(* __main__, send_whatsapp_message and check_message_status *)

(* A call of the messaging provider either succeeds or raises
   TwilioRestException; at most MaxFaults calls of a run raise.  The list
   delivery_status is only counted for the log and is left out; status holds
   what was appended to it last. *)

phone_numbers == <<"4370", "2276", "7244">>   \* line 337, the last four digits
max_retries == 3                              \* line 281
NoStatus == "None"                            \* check_message_status returning None
Statuses == {"delivered", "queued"}

\* line 280: what enumerate(messages, 1) yields for the argument messages;
\* the caller passes one string, whose items are its characters
Units(arg) == [k \in 1..Len(arg) |-> <<arg[k]>>]

\* lines 346 and 342: the next message, the next number, or the end
ToNextMessage ==
  IF mi < Len(messages)
  THEN /\ mi' = mi + 1 /\ pc' = "call" /\ UNCHANGED <<ni, messages>>
  ELSE IF ni < Len(phone_numbers)
  THEN /\ ni' = ni + 1 /\ mi' = 1 /\ pc' = "call" /\ UNCHANGED messages
  ELSE /\ pc' = "done" /\ UNCHANGED <<ni, mi, messages>>

\* lines 335-346
ScriptStart ==
  /\ pc = "script"
  /\ IF ~Falsy(summary)
     THEN /\ messages' = Split(summary, <<NL, NL>>)
          /\ ni' = 1 /\ mi' = 1
          /\ pc' = "call"
     ELSE /\ pc' = "done"
          /\ UNCHANGED loopVars
  /\ UNCHANGED <<sendVars, pollVars, histVars, chunkVars, extractVars, mainVars>>

\* lines 348 and 271-283: send_whatsapp_message(number, message) is entered
CallSend ==
  /\ pc = "call"
  /\ message_sids' = <<>>
  /\ ui' = 1
  /\ retry_count' = 0
  /\ unitLog' = <<>>
  /\ IF Len(Units(messages[mi])) = 0
     THEN success' = TRUE /\ pc' = "returned"
     ELSE UNCHANGED success /\ pc' = "attempt"
  /\ UNCHANGED <<loopVars, pollVars, faults, nSids, nCreate, lastBody, attempted, exhausted, polled,
                 chunkVars, extractVars, mainVars>>

\* the history of the unit the next call of create belongs to
UnitLogNow == IF unitLog # <<>> /\ unitLog[Len(unitLog)] = "ok" THEN <<>> ELSE unitLog

\* lines 288-296: create succeeds; break, then the next unit or return True
SendOk ==
  /\ pc = "attempt"
  /\ nCreate' = nCreate + 1
  /\ lastBody' = Units(messages[mi])[ui]
  /\ attempted' = attempted \cup {<<ni, mi>>}
  /\ nSids' = nSids + 1
  /\ message_sids' = Append(message_sids, nSids + 1)
  /\ unitLog' = Append(UnitLogNow, "ok")
  /\ retry_count' = 0
  /\ IF ui < Len(Units(messages[mi]))
     THEN ui' = ui + 1 /\ pc' = "attempt" /\ UNCHANGED success
     ELSE success' = TRUE /\ pc' = "returned" /\ UNCHANGED ui
  /\ UNCHANGED <<loopVars, pollVars, faults, exhausted, polled, chunkVars, extractVars, mainVars>>

\* a variant that forgets to count the failed attempt
RetryCountStuck(n) == n

\* line 298
RetryCountAfterError(n) == n + 1

\* lines 297-306: create raises TwilioRestException
SendErr ==
  /\ pc = "attempt"
  /\ faults < MaxFaults
  /\ faults' = faults + 1
  /\ nCreate' = nCreate + 1
  /\ lastBody' = Units(messages[mi])[ui]
  /\ attempted' = attempted \cup {<<ni, mi>>}
  /\ unitLog' = Append(UnitLogNow, "err")
  /\ retry_count' = RetryCountAfterError(retry_count)
  /\ IF retry_count' = max_retries
     THEN /\ success' = FALSE
          /\ exhausted' = exhausted \cup {<<ni, mi>>}
          /\ pc' = "returned"
     ELSE /\ pc' = "sleep"
          /\ UNCHANGED <<success, exhausted>>
  /\ UNCHANGED <<loopVars, pollVars, ui, message_sids, nSids, polled, chunkVars, extractVars, mainVars>>

\* line 306: time.sleep(5), then the while loop again
Sleep ==
  /\ pc = "sleep"
  /\ unitLog' = Append(unitLog, "sleep")
  /\ pc' = "attempt"
  /\ UNCHANGED <<loopVars, sendVars, pollVars, faults, nSids, nCreate, lastBody, attempted, exhausted,
                 polled, chunkVars, extractVars, mainVars>>

\* lines 350-359: the caller after send_whatsapp_message returned
AfterSend ==
  /\ pc = "returned"
  /\ IF success /\ message_sids # <<>>
     THEN /\ si' = 1 /\ pc' = "poll" /\ UNCHANGED loopVars
     ELSE /\ ToNextMessage /\ UNCHANGED si
  /\ UNCHANGED <<sendVars, status, histVars, chunkVars, extractVars, mainVars>>

\* lines 351-356 and 316-323: the status of sid message_sids[si] is fetched
StatusOk ==
  /\ pc = "poll"
  /\ polled' = Append(polled, message_sids[si])
  /\ \E st \in Statuses : status' = st
  /\ IF si < Len(message_sids)
     THEN /\ si' = si + 1 /\ pc' = "poll" /\ UNCHANGED loopVars
     ELSE /\ ToNextMessage /\ UNCHANGED si
  /\ UNCHANGED <<sendVars, faults, nSids, nCreate, lastBody, attempted, exhausted, unitLog,
                 chunkVars, extractVars, mainVars>>

\* lines 324-328: fetch raises TwilioRestException; check_message_status returns None
StatusErr ==
  /\ pc = "poll"
  /\ faults < MaxFaults
  /\ faults' = faults + 1
  /\ polled' = Append(polled, message_sids[si])
  /\ status' = NoStatus
  /\ IF si < Len(message_sids)
     THEN /\ si' = si + 1 /\ pc' = "poll" /\ UNCHANGED loopVars
     ELSE /\ ToNextMessage /\ UNCHANGED si
  /\ UNCHANGED <<sendVars, nSids, nCreate, lastBody, attempted, exhausted, unitLog,
                 chunkVars, extractVars, mainVars>>

----------------------------------------------------------------------------
(* The values of the variables a specification does not use *)

IdleChunk == cText = <<>> /\ cBudget = 1 /\ cChunks = <<>>
IdleExtract == page = MissingPage /\ events = <<>>
IdleMain ==
  /\ chunks = <<>> /\ ci = 1 /\ summaries = <<>>
  /\ final_summary = NoValue /\ summary = NoValue /\ groqLog = <<>>
IdleDeliver ==
  /\ messages = <<>> /\ ni = 1 /\ mi = 1
  /\ ui = 1 /\ retry_count = 0 /\ message_sids = <<>> /\ success = TRUE
  /\ si = 1 /\ status = NoStatus
  /\ faults = 0 /\ nSids = 0 /\ nCreate = 0 /\ lastBody = NoValue
  /\ attempted = {} /\ exhausted = {} /\ polled = <<>> /\ unitLog = <<>>

----------------------------------------------------------------------------
(* The extraction on its own: pages of up to MaxItems list items *)

MainItem(c) == Li(<<c>>, FALSE, <<c>>, <<>>)
SubItem(t) == Li(NoValue, TRUE, <<t>>, <<>>)
PlainItem(t) == Li(NoValue, FALSE, <<t>>, <<>>)

LeafItems == {MainItem("A"), MainItem("C"), SubItem("B"), PlainItem("x"), PlainItem("y")}
NestedChoices == {<<>>, <<PlainItem("n")>>, <<SubItem("r")>>}
TopItems == {[leaf EXCEPT !.nested = nested] : leaf \in LeafItems, nested \in NestedChoices}

\* the page of the specification's example: A, x, B, y, C, z
ExamplePage ==
  ContentPage(<<H2(TRUE), Ul(<<MainItem("A"), PlainItem("x"), SubItem("B"),
                               PlainItem("y"), MainItem("C"), PlainItem("z")>>)>>)

\* the pages of up to MaxItems items in one or two top-level lists after a heading
IsExtractPage(p) ==
  \/ p \in {ErrorPage, MissingPage, ExamplePage}
  \/ \E n \in 0..MaxItems : \E items \in [1..n -> TopItems] :
       \E d \in BOOLEAN, cut \in 0..n :
         p = ContentPage(<<H2(d), Ul(SubSeq(items, 1, cut)), Ul(Drop(items, cut))>>)

InitExtract ==
  /\ pc = "scrape"
  /\ IsExtractPage(page)
  /\ events = <<>>
  /\ IdleChunk /\ IdleMain /\ IdleDeliver

Scrape ==
  /\ pc = "scrape"
  /\ events' = scrape_wikipedia(page)
  /\ pc' = "scraped"
  /\ UNCHANGED <<page, chunkVars, mainVars, deliverVars>>

NextExtract == Scrape

SpecExtract == InitExtract /\ [][NextExtract]_vars

----------------------------------------------------------------------------
(* Claims about scrape_wikipedia *)

IsItem(e) == e.type \in {"event", "nested_event"}

\* the text of the last main_category event before index k, or None
RECURSIVE LastMain(_, _)
LastMain(evs, k) ==
  IF k <= 1 THEN NoValue
  ELSE IF evs[k - 1].type = "main_category" THEN evs[k - 1].text
  ELSE LastMain(evs, k - 1)

\* the text of the last subcategory event before index k and after the last
\* main_category event before k, or None
RECURSIVE LastSub(_, _)
LastSub(evs, k) ==
  IF k <= 1 THEN NoValue
  ELSE IF evs[k - 1].type = "main_category" THEN NoValue
  ELSE IF evs[k - 1].type = "subcategory" THEN evs[k - 1].text
  ELSE LastSub(evs, k - 1)

ContextPropagated(evs) ==
  \A k \in 1..Len(evs) :
    IsItem(evs[k]) =>
      /\ evs[k].main_category = LastMain(evs, k)
      /\ evs[k].subcategory = LastSub(evs, k)

\* src1 is not after src2 in the document
NotAfter(s1, s2) ==
  \/ s1[1] < s2[1]
  \/ s1[1] = s2[1] /\ s1[2] < s2[2]
  \/ s1[1] = s2[1] /\ s1[2] = s2[2] /\ s1[3] <= s2[3]

DocumentOrder(evs) ==
  \A i, j \in 1..Len(evs) : i < j => NotAfter(evs[i].src, evs[j].src)

\* C8: every event and nested_event carries the text of the most recent
\* main-category event and of the most recent subcategory event since it (or
\* None), and the events are emitted in the order of the document.
C8_ContextAndOrder ==
  pc = "scraped" => ContextPropagated(events) /\ DocumentOrder(events)

\* the context part of C8 alone
C8_ContextOnly ==
  pc = "scraped" => ContextPropagated(events)

\* the example of the specification: items carry (A, None), (A, B), (C, None)
C8_ExampleReached ==
  /\ pc = "scraped"
  /\ page = ExamplePage
  /\ Len(events) = 6
  /\ <<events[2].main_category, events[2].subcategory>> = <<<<"A">>, NoValue>>
  /\ <<events[4].main_category, events[4].subcategory>> = <<<<"A">>, <<"B">>>>
  /\ <<events[6].main_category, events[6].subcategory>> = <<<<"C">>, NoValue>>

----------------------------------------------------------------------------
(* The chunker on its own: any text, any positive budget *)

ChunkTexts == StringsUpTo({"a", "b", NL}, MaxLen)

InitChunk ==
  /\ pc = "chunk"
  /\ cText \in ChunkTexts
  /\ cBudget \in 1..MaxBudget
  /\ cChunks = <<>>
  /\ IdleExtract /\ IdleMain /\ IdleDeliver

ApplySplit ==
  /\ pc = "chunk"
  /\ cChunks' = split_message(cText, cBudget)
  /\ pc' = "chunked"
  /\ UNCHANGED <<cText, cBudget, extractVars, mainVars, deliverVars>>

NextChunk == ApplySplit

SpecChunk == InitChunk /\ [][NextChunk]_vars

----------------------------------------------------------------------------
(* The delivery loop on its own.  main() has just returned: a page of one
   category and one item gave one chunk, and the provider answered it with
   some non-empty text, which is the summary. *)

DeliverSummaries == StringsUpTo({"a", NL}, MaxSummaryLen) \ {<<>>}

DeliverPage == ContentPage(<<H2(TRUE), Ul(<<MainItem("A"), PlainItem("x")>>)>>)

InitDeliver ==
  /\ pc = "script"
  /\ page = DeliverPage
  /\ events = scrape_wikipedia(page)
  /\ chunks = split_message(EventsText(events), SummaryChunkSize)
  /\ ci = 2
  /\ summary \in DeliverSummaries
  /\ summaries = <<summary>>
  /\ groqLog = <<[chunk |-> 1, text |-> chunks[1], ok |-> TRUE, reply |-> summary]>>
  /\ final_summary = summary
  /\ IdleChunk /\ IdleDeliver

NextDeliver ==
  \/ ScriptStart
  \/ CallSend
  \/ SendOk
  \/ SendErr
  \/ Sleep
  \/ AfterSend
  \/ StatusOk
  \/ StatusErr

SpecDeliver == InitDeliver /\ [][NextDeliver]_vars

\* the thread is never suspended for ever: every call returns or raises
FairDeliver == SpecDeliver /\ WF_vars(NextDeliver)

----------------------------------------------------------------------------
(* The whole run *)

BigItem == PlainItem("#")

RunPages ==
  {ErrorPage, MissingPage,
   ContentPage(<<H2(TRUE)>>),
   ContentPage(<<H2(TRUE), Ul(<<>>)>>),
   ContentPage(<<H2(TRUE), Ul(<<MainItem("A"), PlainItem("x")>>)>>),
   ContentPage(<<H2(TRUE), Ul(<<MainItem("A"), BigItem, BigItem>>)>>)}

Init ==
  /\ pc = "main"
  /\ page \in RunPages
  /\ events = <<>>
  /\ IdleChunk /\ IdleMain /\ IdleDeliver

NextMain ==
  \/ MainScrape
  \/ GroqOk
  \/ GroqFail
  \/ SummarizeReturn

Next == NextMain \/ NextDeliver

Spec == Init /\ [][Next]_vars

----------------------------------------------------------------------------
(* main() on its own: pages of up to MaxEvents items, short and long ones *)

IsSummarizePage(p) ==
  \/ p \in {ErrorPage, MissingPage}
  \/ \E n \in 0..MaxEvents : \E items \in [1..n -> {MainItem("A"), PlainItem("x"), BigItem}] :
       p = ContentPage(<<H2(TRUE), Ul(items)>>)

InitSummarize ==
  /\ pc = "main"
  /\ IsSummarizePage(page)
  /\ events = <<>>
  /\ IdleChunk /\ IdleMain /\ IdleDeliver

SpecSummarize == InitSummarize /\ [][NextMain]_vars

----------------------------------------------------------------------------
(* Claims about split_message *)

\* C1: joining the chunks split_message returns with the line separator
\* reproduces the text exactly, for every text and every positive budget.
C1_RoundTrip ==
  pc = "chunked" => Join(<<NL>>, cChunks) = cText

\* the chunks are the joins of consecutive runs of whole lines, in order
RECURSIVE CoversLines(_, _)
CoversLines(chunkList, lines) ==
  IF chunkList = <<>> THEN lines = <<>>
  ELSE \E k \in 0..Len(lines) :
         /\ Head(chunkList) = Join(<<NL>>, SubSeq(lines, 1, k))
         /\ CoversLines(Tail(chunkList), Drop(lines, k))

IsOneLine(chunk) == \A j \in 1..Len(chunk) : chunk[j] # NL

\* C7: every chunk is at most chunk_size characters long unless it is a single
\* line that is itself longer than chunk_size, and every chunk is made of whole
\* lines of the text: no line is split across chunks.
C7_BudgetBound ==
  pc = "chunked" =>
    /\ \A k \in 1..Len(cChunks) :
         \/ StrLen(cChunks[k]) <= cBudget
         \/ IsOneLine(cChunks[k]) /\ StrLen(cChunks[k]) > cBudget
    /\ CoversLines(cChunks, Split(cText, <<NL>>))

\* a text of several lines was cut into several chunks, one of them an oversized line
C7_Witness ==
  /\ pc = "chunked"
  /\ Len(cChunks) >= 3
  /\ \E k \in 1..Len(cChunks) : StrLen(cChunks[k]) > cBudget
  /\ \E k \in 1..Len(cChunks) : ~IsOneLine(cChunks[k])

\* C10: a chunk is closed only on overflow: for two consecutive chunks, the
\* earlier chunk, one separator and the first line of the later chunk together
\* are longer than chunk_size.
C10_GreedyMinimal ==
  pc = "chunked" =>
    \A k \in 1..(Len(cChunks) - 1) :
      StrLen(cChunks[k]) + 1 + StrLen(Split(cChunks[k + 1], <<NL>>)[1]) > cBudget

----------------------------------------------------------------------------
(* Claims about summarize_with_groq and main *)

\* what the call logged at place k of groqLog contributes to the summary
ResultOf(k) == IF groqLog[k].ok THEN groqLog[k].reply ELSE Placeholder(k)

Summarized == pc \notin {"main", "groq", "join"} /\ events # <<>>

\* C6: one provider call per partition, in partition order, a failed call
\* being replaced by the placeholder of its partition without stopping the
\* loop; the returned text is the per-partition results in partition order,
\* joined by a blank line.
C6_OrderAndIsolation ==
  /\ Len(groqLog) <= Len(chunks)
  /\ \A k \in 1..Len(groqLog) : groqLog[k].chunk = k /\ groqLog[k].text = chunks[k]
  /\ Summarized =>
       /\ Len(groqLog) = Len(chunks)
       /\ final_summary = Join(<<NL, NL>>, [k \in 1..Len(chunks) |-> ResultOf(k)])

\* three partitions, the second failed and the others answered
C6_Witness ==
  /\ Summarized
  /\ Len(chunks) = 3
  /\ groqLog[1].ok /\ ~groqLog[2].ok /\ groqLog[3].ok
  /\ final_summary = <<"s", NL, NL>> \o Placeholder(2) \o <<NL, NL, "s">>

Started == pc # "main"
AfterScript == pc \notin {"main", "groq", "join", "script"}
NothingSent == nCreate = 0 /\ polled = <<>> /\ attempted = {}
\* the delivery loop was entered with the pieces of the summary (messages is
\* assigned once, so it is compared where the loop starts)
DeliveryAttempted ==
  /\ messages # <<>>
  /\ (pc = "call" /\ ni = 1 /\ mi = 1) => messages = Split(summary, <<NL, NL>>)

\* C9 as claimed: no events means no summarisation call, no send and no
\* status poll; at least one event means a non-empty summary and an attempted
\* delivery.
C9_HardStopOrDeliver ==
  /\ (Started /\ events = <<>>) => (groqLog = <<>> /\ NothingSent)
  /\ (AfterScript /\ events # <<>>) => (~Falsy(summary) /\ DeliveryAttempted)

\* the one way to an empty summary: a single partition answered by the empty string
EmptyAnswer == Len(groqLog) = 1 /\ Len(chunks) = 1 /\ groqLog[1].ok /\ groqLog[1].reply = <<>>

\* C9 as amended: no events means no summarisation call, no send and no
\* status poll, and the run ends; at least one event means one call per
\* partition, and delivery is attempted unless the summary is empty, which it
\* is exactly when the only partition was answered by the empty string: then
\* the run ends with nothing sent.
C9_HardStopOrDeliverUnlessEmpty ==
  /\ (Started /\ events = <<>>) =>
       /\ groqLog = <<>> /\ NothingSent
       /\ summary = NoValue
       /\ pc \in {"script", "done"}
  /\ (AfterScript /\ events # <<>>) =>
       /\ Len(groqLog) = Len(chunks)
       /\ IF EmptyAnswer
          THEN summary = NoValue /\ NothingSent /\ messages = <<>> /\ pc = "done"
          ELSE ~Falsy(summary) /\ DeliveryAttempted

\* a page whose content div holds no list item ended the run
C9_Witness ==
  /\ pc = "done"
  /\ page.kind = "content"
  /\ events = <<>>

----------------------------------------------------------------------------
(* Claims about the delivery *)

\* C2: once every attempt of a message to a number has failed, no later
\* message is attempted for that number; the other numbers are sent every
\* message.
C2_FailFastIsolation ==
  /\ \A p \in exhausted : \A q \in attempted : ~(q[1] = p[1] /\ q[2] > p[2])
  /\ pc = "done" /\ messages # <<>> =>
       \A n \in 1..Len(phone_numbers) :
         (\A p \in exhausted : p[1] # n) =>
           \A m \in 1..Len(messages) : messages[m] # <<>> => <<n, m>> \in attempted

\* C3: when every send succeeds there are (numbers) x (messages) sends and as
\* many status polls, each send carrying its whole message as body.
C3_SendCount ==
  /\ (pc = "done" /\ messages # <<>> /\ nCreate = nSids) =>
       /\ nCreate = Len(phone_numbers) * Len(messages)
       /\ Len(polled) = nCreate
  /\ (pc \in {"sleep", "returned"} /\ <<ni, mi>> \in attempted) => lastBody = messages[mi]

Count(seq, x) == Cardinality({k \in 1..Len(seq) : seq[k] = x})

\* C4: every sid that was assigned is polled exactly once, those of a call
\* that later ran out of retries too; a failed status check does not stop the
\* polling.
C4_PollCoverage ==
  /\ \A sid \in 1..nSids : Count(polled, sid) <= 1
  /\ pc = "done" => \A sid \in 1..nSids : Count(polled, sid) = 1

ThreeErrors == <<"err", "sleep", "err", "sleep", "err">>

IsPrefix(a, b) == Len(a) <= Len(b) /\ SubSeq(b, 1, Len(a)) = a

\* what may happen for one unit: up to two failed attempts, each followed by a
\* sleep, and then a success or a third failure
UnitLogAllowed(l) ==
  \/ IsPrefix(l, ThreeErrors)
  \/ l # <<>> /\ l[Len(l)] = "ok" /\ Len(l) \in {1, 3, 5} /\ IsPrefix(SubSeq(l, 1, Len(l) - 1), ThreeErrors)

InCall == pc \in {"attempt", "sleep"}

C5_Safe ==
  /\ UnitLogAllowed(unitLog)
  /\ Count(unitLog, "err") + Count(unitLog, "ok") <= max_retries
  /\ pc = "sleep" => unitLog # <<>> /\ unitLog[Len(unitLog)] = "err" /\ Count(unitLog, "err") < max_retries
  /\ pc = "attempt" => unitLog = <<>> \/ unitLog[Len(unitLog)] \in {"sleep", "ok"}
  /\ pc = "returned" =>
       /\ success <=> unitLog # ThreeErrors
       /\ success /\ messages[mi] # <<>> => unitLog[Len(unitLog)] = "ok"
       /\ success => Len(message_sids) = Len(Units(messages[mi]))

\* C5: a unit gets at least one and at most three attempts, a further one only
\* after a failed one, none after a success; the sleep comes only after a
\* failed attempt that another attempt follows; the call returns, and returns
\* False exactly when a unit failed three times.
C5_BoundedRetry ==
  /\ []C5_Safe
  /\ [][pc = "sleep" => pc' = "attempt" /\ retry_count' = retry_count]_vars
  /\ InCall ~> pc = "returned"

\* a unit was sent, and the next one failed three times with two sleeps
C5_Witness ==
  /\ pc = "returned"
  /\ ~success
  /\ message_sids # <<>>
  /\ unitLog = ThreeErrors

====
